---- MODULE Spec2Model ----
(***************************************************************************)
(* Model of src/server.py: the MCP tool get_server_status.                 *)
(*                                                                         *)
(* One invocation = one call of the coroutine get_server_status.  The      *)
(* coroutine contains no await: requests.get and requests.post are         *)
(* synchronous calls made on the asyncio event loop thread, so the         *)
(* coroutine holds the event loop from its first line to its return.       *)
(* The two places where an invocation can wait are the status request      *)
(* (line 43) and the completion request (line 73); everything between two  *)
(* waits is one action.                                                    *)
(***************************************************************************)
EXTENDS Integers, Sequences, FiniteSets, TLC

\* ---------------------------------------------------------------- bounds
NumInvocations == 2

Invocations == 1..NumInvocations

\* ---------------------------------------------------------------- inputs
\* params.server_ip: ServerStatusInput only requires a str, so "" is accepted.
ServerIps == {"", "mc.a.net"}

\* What the caller presented with the request, as an authorization gate
\* would judge it.  The server is built without any gate (lines 20-23).
Credentials == {"allowed", "denied"}

\* JSON bodies the status service can answer with (res.json(), line 45):
\* no JSON, JSON that is no object, and objects.  The members players and
\* motd are read only when online is true (lines 49-50).
StatusBodies ==
    { [json |-> "invalid", online |-> "missing", players |-> "missing", motd |-> "missing"],
      [json |-> "array",   online |-> "missing", players |-> "missing", motd |-> "missing"] }
    \cup
    [ json    : {"object"},
      online  : {"true"},
      players : {"missing", "dict", "null"},
      motd    : {"missing", "clean", "noclean", "null", "badclean"} ]
    \cup
    [ json    : {"object"},
      online  : {"false", "missing"},
      players : {"missing", "dict"},
      motd    : {"missing"} ]

EmptyStatusBody == [json |-> "invalid", online |-> "missing", players |-> "missing", motd |-> "missing"]

\* Outcomes of requests.get (line 43): an exception, or a response.
StatusResponses ==
    { [kind |-> "neterr", ok |-> FALSE, body |-> EmptyStatusBody],
      [kind |-> "http",   ok |-> FALSE, body |-> EmptyStatusBody] }
    \cup
    [ kind : {"http"}, ok : {TRUE}, body : StatusBodies ]

\* JSON bodies the completion service can answer with (groq_resp.json(), line 97).
GroqBody(j, c, m, t) == [json |-> j, choices |-> c, message |-> m, content |-> t]

GroqBodies ==
    { GroqBody("invalid", "missing", "missing", "missing"),
      GroqBody("array",   "missing", "missing", "missing"),
      GroqBody("object",  "missing", "missing", "missing"),
      GroqBody("object",  "empty",   "missing", "missing"),
      GroqBody("object",  "null",    "missing", "missing"),
      GroqBody("object",  "one",     "missing", "missing"),
      GroqBody("object",  "one",     "null",    "missing"),
      GroqBody("object",  "one",     "object",  "missing"),
      GroqBody("object",  "one",     "object",  "null"),
      GroqBody("object",  "one",     "object",  " 1. Hypixel "),
      GroqBody("object",  "one",     "object",  "  ") }

GroqResponses ==
    { [kind |-> "neterr", ok |-> FALSE, body |-> GroqBody("invalid", "missing", "missing", "missing")] }
    \cup
    [ kind : {"http"}, ok : {FALSE}, body : {GroqBody("invalid", "missing", "missing", "missing")} ]
    \cup
    [ kind : {"http"}, ok : {TRUE}, body : GroqBodies ]

\* ------------------------------------------------------- returned values
\* Content(content=[{"type": "text", "text": ...}, ...], metadata={...}).
\* A text is the sequence of the pieces of its f-string; metadata is kept
\* as its set of keys.
Content(texts, keys) == [content |-> texts, metadata |-> keys]

NoContent == Content(<< >>, {})

\* Outcome of running the handler body up to a return, a raise that leaves
\* the coroutine, or the next blocking call.
Returned(c) == [how |-> "return", value |-> c]

Escaped == [how |-> "raise", value |-> NoContent]

Continue == [how |-> "continue", value |-> NoContent]

\* except requests.RequestException (lines 109-114)
NetworkErrorContent(server_ip) ==
    Content(<< <<"Network error checking", server_ip>> >>, {"error"})

\* except Exception (lines 115-120)
UnexpectedErrorContent(server_ip) ==
    Content(<< <<"An unexpected error occurred while checking", server_ip>> >>, {"error"})

\* The try statement without its catch-all clause.
ExceptWithoutCatchAll(exc, server_ip) ==
    IF exc = "RequestException" THEN Returned(NetworkErrorContent(server_ip))
    ELSE Escaped

\* The except clauses of the try statement, in order: what becomes of an
\* exception of class exc raised inside the try body.
Except(exc, server_ip) ==
    IF exc = "RequestException" THEN Returned(NetworkErrorContent(server_ip))
    ELSE IF exc = "Exception" THEN Returned(UnexpectedErrorContent(server_ip))
    ELSE Escaped

\* res.json() / groq_resp.json() on a body that is not JSON raises
\* requests.exceptions.JSONDecodeError, a RequestException, in requests
\* >= 2.27 and a plain ValueError before; the repository pins no version.
JsonDecodeErrors == {"RequestException", "Exception"}

\* ------------------------------------------------------ status check part
\* players.get('online', 0) / players.get('max', 0), lines 49 and 54
PlayersOnline(players) == IF players = "dict" THEN "3" ELSE "0"

PlayersMax(players) == IF players = "dict" THEN "20" ELSE "0"

\* data.get("players", {}) must support .get; JSON null does not.
PlayersRaises(players) == players = "null"

\* data.get("motd", {}).get("clean", ["N/A"]) and ' '.join(motd_lines)
MotdRaises(motd) == motd \in {"null", "badclean"}

MotdText(motd) == IF motd = "clean" THEN "A Minecraft Server" ELSE "N/A"

\* A test that takes a missing "online" member for an online server.
OnlineFlagUnlessFalse(body) == body.online # "false"

\* if data.get("online"): a missing key gives None, which is falsy.
OnlineFlag(body) == body.online = "true"

\* lines 51-58
OnlineContent(server_ip, body) ==
    Content(<< <<"Server", server_ip, "is ONLINE.">>,
               <<"Players:", PlayersOnline(body.players), "/", PlayersMax(body.players)>>,
               <<"MOTD:", MotdText(body.motd)>> >>,
            {"raw"})

\* A handler that goes on to the completion request when the status
\* request itself failed.
AfterStatusFallsBack(server_ip, res) ==
    IF res.kind = "neterr" \/ ~res.ok THEN {Continue}
    ELSE IF res.body.json = "invalid" THEN {Except(e, server_ip) : e \in JsonDecodeErrors}
    ELSE IF res.body.json # "object" THEN {Except("Exception", server_ip)}
    ELSE IF OnlineFlag(res.body)
         THEN IF PlayersRaises(res.body.players) \/ MotdRaises(res.body.motd)
              THEN {Except("Exception", server_ip)}
              ELSE {Returned(OnlineContent(server_ip, res.body))}
    ELSE {Continue}

\* Lines 43-58: the possible results of the handler once requests.get has
\* returned or raised.
AfterStatus(server_ip, res) ==
    IF res.kind = "neterr" THEN {Except("RequestException", server_ip)}
    ELSE IF ~res.ok THEN {Except("RequestException", server_ip)}
    ELSE IF res.body.json = "invalid" THEN {Except(e, server_ip) : e \in JsonDecodeErrors}
    ELSE IF res.body.json # "object" THEN {Except("Exception", server_ip)}
    ELSE IF OnlineFlag(res.body)
         THEN IF PlayersRaises(res.body.players) \/ MotdRaises(res.body.motd)
              THEN {Except("Exception", server_ip)}
              ELSE {Returned(OnlineContent(server_ip, res.body))}
    ELSE {Continue}

\* What the status service answered: requests.get raised, the status was
\* 4xx/5xx (raise_for_status raises), the body was no JSON object, or the
\* object's "online" member was true, or false or missing.
StatusClass(res) ==
    IF res.kind = "neterr" THEN "neterr"
    ELSE IF ~res.ok THEN "httperr"
    ELSE IF res.body.json # "object" THEN "malformed"
    ELSE IF res.body.online = "true" THEN "online"
    ELSE "offline"

\* --------------------------------------------------------- discovery part
\* str.strip()
Strip(s) == IF s = " 1. Hypixel " THEN "1. Hypixel" ELSE IF s = "  " THEN "" ELSE s

\* line 98: groq_json.get("choices", [{}])[0].get("message", {})
\*              .get("content", "No suggestions returned.").strip()
\* raises IndexError on an empty choices list, TypeError or AttributeError
\* when groq_json, choices, message or content is not of the expected type.
SuggestionsRaises(groq_json) ==
    \/ groq_json.json # "object"
    \/ groq_json.choices \in {"empty", "null"}
    \/ groq_json.choices = "one" /\ groq_json.message = "null"
    \/ groq_json.choices = "one" /\ groq_json.message = "object" /\ groq_json.content = "null"

Suggestions(groq_json) ==
    IF groq_json.choices = "missing" THEN "No suggestions returned."
    ELSE IF groq_json.message = "missing" THEN "No suggestions returned."
    ELSE IF groq_json.content = "missing" THEN "No suggestions returned."
    ELSE Strip(groq_json.content)

\* lines 89-95
GroqFailedContent(server_ip) ==
    Content(<< <<"Server", server_ip, "is OFFLINE.">>,
               <<"Unable to fetch alternatives from Groq (status", "code", ").">> >>,
            {"mcsrv"})

\* lines 100-107
OfflineContent(server_ip, suggestions) ==
    Content(<< <<"Server", server_ip, "is OFFLINE.">>,
               <<"Suggested alternatives:">>,
               <<suggestions>> >>,
            {"mcsrv", "groq"})

\* Lines 73-107: the possible results of the handler once requests.post
\* has returned or raised.
AfterGroq(server_ip, groq_resp) ==
    IF groq_resp.kind = "neterr" THEN {Except("RequestException", server_ip)}
    ELSE IF ~groq_resp.ok THEN {Returned(GroqFailedContent(server_ip))}
    ELSE IF groq_resp.body.json = "invalid" THEN {Except(e, server_ip) : e \in JsonDecodeErrors}
    ELSE IF SuggestionsRaises(groq_resp.body) THEN {Except("Exception", server_ip)}
    ELSE {Returned(OfflineContent(server_ip, Suggestions(groq_resp.body)))}

\* What became of the discovery call.
GroqClass(groq_resp) ==
    IF groq_resp.kind = "neterr" THEN "neterr"
    ELSE IF ~groq_resp.ok THEN "httperr"
    ELSE IF groq_resp.body.json # "object" THEN "malformed"
    ELSE IF groq_resp.body.choices # "one" THEN "malformed"
    ELSE IF groq_resp.body.message # "object" THEN "malformed"
    ELSE IF groq_resp.body.content \in {"missing", "null"} THEN "malformed"
    ELSE "ok"

\* ------------------------------------------------------------------ state
VARIABLES
    pc,          \* where each invocation is: "idle", "probing" (inside
                 \* requests.get), "discovering" (inside requests.post), "done"
    server_ip,   \* params.server_ip of the invocation
    credential,  \* what the caller presented; never read by the code
    net,         \* the outstanding request: "none", "sent", or "silent"
                 \* (the service will never answer it)
    statusSent,  \* number of status requests sent by the invocation
    groqSent,    \* number of completion requests sent by the invocation
    probe,       \* what the status request came to ("none" before)
    groq,        \* what the completion request came to ("none" before)
    result,      \* how the coroutine ended and the Content it returned
    loop         \* the invocations running on the event loop thread

vars == <<pc, server_ip, credential, net, statusSent, groqSent, probe, groq, result, loop>>

NoResult == [how |-> "none", value |-> NoContent]

Init ==
    /\ pc = [i \in Invocations |-> "idle"]
    /\ server_ip = [i \in Invocations |-> ""]
    /\ credential = [i \in Invocations |-> "denied"]
    /\ net = [i \in Invocations |-> "none"]
    /\ statusSent = [i \in Invocations |-> 0]
    /\ groqSent = [i \in Invocations |-> 0]
    /\ probe = [i \in Invocations |-> "none"]
    /\ groq = [i \in Invocations |-> "none"]
    /\ result = [i \in Invocations |-> NoResult]
    /\ loop = {}

\* An invocation that sends the status request twice.
InvokeWithRetry(i, ip, cred) ==
    /\ pc[i] = "idle"
    /\ loop = {}
    /\ loop' = {i}
    /\ server_ip' = [server_ip EXCEPT ![i] = ip]
    /\ credential' = [credential EXCEPT ![i] = cred]
    /\ pc' = [pc EXCEPT ![i] = "probing"]
    /\ statusSent' = [statusSent EXCEPT ![i] = @ + 2]
    /\ net' = [net EXCEPT ![i] = "sent"]
    /\ UNCHANGED <<groqSent, probe, groq, result>>

\* Lines 36-43.  The framework calls the coroutine with validated params;
\* the coroutine starts when the event loop thread is free, and runs
\* straight into requests.get.  Nothing looks at the credential and
\* nothing checks that server_ip is non-empty.
Invoke(i, ip, cred) ==
    /\ pc[i] = "idle"
    /\ loop = {}
    /\ loop' = {i}
    /\ server_ip' = [server_ip EXCEPT ![i] = ip]
    /\ credential' = [credential EXCEPT ![i] = cred]
    /\ pc' = [pc EXCEPT ![i] = "probing"]
    /\ statusSent' = [statusSent EXCEPT ![i] = @ + 1]
    /\ net' = [net EXCEPT ![i] = "sent"]
    /\ UNCHANGED <<groqSent, probe, groq, result>>

\* The remote service stops answering.  requests.get(url) and
\* requests.post(url, headers=, json=) pass no timeout, so requests waits
\* without limit and the invocation stays where it is.
ServiceNeverAnswers(i) ==
    /\ pc[i] \in {"probing", "discovering"}
    /\ net[i] = "sent"
    /\ net' = [net EXCEPT ![i] = "silent"]
    /\ UNCHANGED <<pc, server_ip, credential, statusSent, groqSent, probe, groq, result, loop>>

\* The coroutine ends: with a returned Content, or with an exception that
\* leaves it.  The event loop thread is free again.
Finish(i, out) ==
    /\ pc' = [pc EXCEPT ![i] = "done"]
    /\ result' = [result EXCEPT ![i] = out]
    /\ net' = [net EXCEPT ![i] = "none"]
    /\ loop' = loop \ {i}

\* Lines 43-83: requests.get returns or raises, and the handler runs on to
\* a return or into requests.post.
StatusAnswers(i, res) ==
    /\ pc[i] = "probing"
    /\ net[i] = "sent"
    /\ probe' = [probe EXCEPT ![i] = StatusClass(res)]
    /\ \E out \in AfterStatus(server_ip[i], res) :
          IF out.how = "continue"
          THEN /\ pc' = [pc EXCEPT ![i] = "discovering"]
               /\ groqSent' = [groqSent EXCEPT ![i] = @ + 1]
               /\ net' = [net EXCEPT ![i] = "sent"]
               /\ UNCHANGED <<result, loop>>
          ELSE /\ Finish(i, out)
               /\ UNCHANGED groqSent
    /\ UNCHANGED <<server_ip, credential, statusSent, groq>>

\* Lines 73-120: requests.post returns or raises, and the handler runs on
\* to its return.
GroqAnswers(i, groq_resp) ==
    /\ pc[i] = "discovering"
    /\ net[i] = "sent"
    /\ groq' = [groq EXCEPT ![i] = GroqClass(groq_resp)]
    /\ \E out \in AfterGroq(server_ip[i], groq_resp) : Finish(i, out)
    /\ UNCHANGED <<server_ip, credential, statusSent, groqSent, probe>>

Next ==
    \/ \E i \in Invocations, ip \in ServerIps, cred \in Credentials : Invoke(i, ip, cred)
    \/ \E i \in Invocations : ServiceNeverAnswers(i)
    \/ \E i \in Invocations, res \in StatusResponses : StatusAnswers(i, res)
    \/ \E i \in Invocations, groq_resp \in GroqResponses : GroqAnswers(i, groq_resp)

Spec == Init /\ [][Next]_vars

\* Every step that is enabled is eventually taken: the event loop runs a
\* called coroutine, and a service that is going to answer does answer.
\* Nothing is assumed of a service that has gone silent.
FairSpec == Spec /\ WF_vars(Next)

TypeOK ==
    /\ pc \in [Invocations -> {"idle", "probing", "discovering", "done"}]
    /\ server_ip \in [Invocations -> ServerIps]
    /\ credential \in [Invocations -> Credentials]
    /\ net \in [Invocations -> {"none", "sent", "silent"}]
    /\ statusSent \in [Invocations -> Nat]
    /\ groqSent \in [Invocations -> Nat]
    /\ probe \in [Invocations -> {"none", "neterr", "httperr", "malformed", "online", "offline"}]
    /\ groq \in [Invocations -> {"none", "neterr", "httperr", "malformed", "ok"}]
    /\ \A i \in Invocations : result[i].how \in {"none", "return", "raise"}
    /\ loop \subseteq Invocations

\* ----------------------------------------------------------- properties
\* A text of the returned Content contains the given piece.
HasPiece(c, piece) ==
    \E k \in DOMAIN c.content : \E m \in DOMAIN c.content[k] : c.content[k][m] = piece

SaysOnline(i) == result[i].how = "return" /\ HasPiece(result[i].value, "is ONLINE.")

SaysOffline(i) == result[i].how = "return" /\ HasPiece(result[i].value, "is OFFLINE.")

\* Some text of the Content is non-empty.
HasText(c) ==
    \E k \in DOMAIN c.content : \E m \in DOMAIN c.content[k] : c.content[k][m] # ""

\* The last text of the Content, the one that carries the suggestions or
\* the explanation in an offline report, is non-empty.
LastTextNonEmpty(c) ==
    /\ Len(c.content) > 0
    /\ \E m \in DOMAIN c.content[Len(c.content)] : c.content[Len(c.content)][m] # ""

StatusFailed(i) == probe[i] \in {"neterr", "httperr", "malformed"}

\* C1: whatever the status service and the completion service answer, a
\* finished invocation has returned a Content with some text in it, and no
\* invocation ever ends with an exception leaving the coroutine.
C1_AlwaysReturnsReport ==
    \A i \in Invocations :
        /\ result[i].how # "raise"
        /\ pc[i] = "done" => result[i].how = "return" /\ HasText(result[i].value)

\* An invocation whose completion response had an unexpected shape has
\* finished, with the catch-all report.
C1_Witness ==
    \E i \in Invocations :
        /\ pc[i] = "done"
        /\ probe[i] = "offline"
        /\ groq[i] = "malformed"
        /\ result[i] = Returned(UnexpectedErrorContent(server_ip[i]))

IsOnlineSummary(c) ==
    /\ Len(c.content) = 3
    /\ HasPiece(c, "is ONLINE.")
    /\ HasPiece(c, "Players:")
    /\ HasPiece(c, "MOTD:")
    /\ "groq" \notin c.metadata

\* C3: whenever the status check reports the server online, the invocation
\* returns the online summary with no suggestions and the discovery
\* provider is never called.
C3_OnlineReturnsSummary ==
    \A i \in Invocations :
        probe[i] = "online" =>
            /\ groqSent[i] = 0
            /\ pc[i] = "done"
            /\ result[i].how = "return"
            /\ IsOnlineSummary(result[i].value)

\* C4: an invocation with an empty server address is rejected and sends
\* neither the status request nor the discovery request.
C4_EmptyAddressNoIO ==
    \A i \in Invocations :
        (pc[i] # "idle" /\ server_ip[i] = "") =>
            /\ statusSent[i] = 0
            /\ groqSent[i] = 0
            /\ net[i] = "none"

\* C5: when the server is offline and the discovery call fails with a
\* non-success status or a malformed body, the report still says the
\* server is offline and carries a text explaining the provider failure.
C5_DiscoveryFailureStillOffline ==
    \A i \in Invocations :
        (pc[i] = "done" /\ probe[i] = "offline" /\ groq[i] \in {"httperr", "malformed"}) =>
            /\ SaysOffline(i)
            /\ \/ HasPiece(result[i].value, "Unable to fetch alternatives from Groq (status")
               \/ HasPiece(result[i].value, "No suggestions returned.")

\* C6: every invocation that has sent a request eventually returns.
C6_EventuallyReturns ==
    \A i \in Invocations : (pc[i] \in {"probing", "discovering"}) ~> (pc[i] = "done")

\* C7: while one invocation waits for the status service or the discovery
\* service, another invocation that has not started yet can start.
C7_NoMutualBlocking ==
    \A i, j \in Invocations :
        (i # j /\ pc[i] \in {"probing", "discovering"} /\ pc[j] = "idle") =>
            ENABLED (\E ip \in ServerIps, cred \in Credentials : Invoke(j, ip, cred))

\* C8: for an invocation whose credential is denied or absent, no step of
\* the operation executes: no status request, no discovery request, no
\* report.
C8_DeniedNeverRuns ==
    \A i \in Invocations :
        credential[i] = "denied" =>
            /\ statusSent[i] = 0
            /\ groqSent[i] = 0
            /\ result[i].how = "none"

C9_Step(i) ==
    \/ pc'[i] = pc[i]
    \/ pc[i] = "idle" /\ pc'[i] = "probing"
    \/ pc[i] = "probing" /\ pc'[i] = "done" /\ probe'[i] # "offline"
    \/ pc[i] = "probing" /\ pc'[i] = "discovering" /\ probe'[i] = "offline"
    \/ pc[i] = "discovering" /\ pc'[i] = "done"

C10_LabelSound ==
    \A i \in Invocations :
        /\ SaysOnline(i) => probe[i] = "online"
        /\ SaysOffline(i) => probe[i] = "offline"
        /\ StatusFailed(i) => ~SaysOnline(i) /\ ~SaysOffline(i)

\* One invocation has returned an ONLINE report and another an OFFLINE one.
C10_Witness ==
    \E i, j \in Invocations : SaysOnline(i) /\ SaysOffline(j)

====
